---- MODULE Spec2Model ----
(***************************************************************************)
(* State-machine model of dub.py: the speech cache (generate_tts, both     *)
(* backends), the synchronisation loop of play_video_with_tts, the         *)
(* keyboard listener (control_loop) and the teardown of the session.       *)
(*                                                                         *)
(* Cue indices are 0-based as in the Python lists; subs is a TLA+          *)
(* sequence, so cue i is subs[i + 1].  The file of cue i is sub_{i+1}.mp3  *)
(* and is identified by the number i + 1; 0 stands for Python's None.      *)
(***************************************************************************)
EXTENDS Integers, Sequences, FiniteSets, TLC

\* ------------------------------------------------------------------ bounds
\* The player clock is sampled on a grid of MaxPosK + 1 positions.
MaxPosK == 5
\* At most MaxFailures synthesis calls fail during a session.
MaxFailures == 1

\* Clip starts within one run of polls are counted up to MaxRunStarts.
MaxRunStarts == 2

\* --------------------------------------------------------------- constants
\* dub.py:339  current_time_ms = int(current_time * 1000)
MsPerSec == 1000

\* Resolution of the player clock: positions are counted in half
\* milliseconds, so that the conversion to milliseconds truncates.
PosPerSec == 2 * MsPerSec

None == 0
NoCue == 0 - 1

\* ------------------------------------------------------------- cue lists
Cue(s, e, t) == [start |-> s, end |-> e, text |-> t]

\* "Hello", "", "World" at [0,1000], [1000,2000], [2000,3000].
ScenarioCues ==
    << Cue(0, 1000, <<"H", "i">>), Cue(1000, 2000, <<>>), Cue(2000, 3000, <<"W", "o">>) >>

\* Two overlapping cues, [0,1000] and [500,1500].
OverlapCues ==
    << Cue(0, 1000, <<"a">>), Cue(500, 1500, <<"b", "\n", "c">>) >>

\* A later-starting cue listed first, a whitespace-only cue, and a gap
\* (no cue contains a position in (2000, 2500)).
MixedCues ==
    << Cue(500, 1000, <<" ", "x", " ">>), Cue(0, 2000, <<"y">>),
       Cue(2500, 3000, <<" ", "\n">>) >>

CueLists == {ScenarioCues, OverlapCues, MixedCues}

\* ------------------------------------------------------- pure functions
IsSpace(c) == c \in {" ", "\n", "\t"}

\* str.replace("\n", " ")
ReplaceNL(t) == [k \in 1..Len(t) |-> IF t[k] = "\n" THEN " " ELSE t[k]]

RECURSIVE LStrip(_)
LStrip(t) == IF t # <<>> /\ IsSpace(Head(t)) THEN LStrip(Tail(t)) ELSE t

RECURSIVE RStrip(_)
RStrip(t) ==
    IF t # <<>> /\ IsSpace(t[Len(t)]) THEN RStrip(SubSeq(t, 1, Len(t) - 1)) ELSE t

\* str.strip()
Strip(t) == RStrip(LStrip(t))

\* sub.text.replace("\n", " ").strip()
NormText(t) == Strip(ReplaceNL(t))

\* `if not text`
Blank(t) == NormText(t) = <<>>

\* The position taken as milliseconds already (no conversion).
ToMsUnscaled(p) == p

\* int(current_time * 1000): truncation toward zero of a non-negative clock.
ToMs(p) == (p * MsPerSec) \div PosPerSec

\* A half-open interval, the end excluded.
ContainsHalfOpen(c, ms) == c.start <= ms /\ ms < c.end

\* sub.start.ordinal <= current_time_ms <= sub.end.ordinal
Contains(c, ms) == c.start <= ms /\ ms <= c.end

\* The scan `for i, sub in enumerate(subs)` with its `break` on the first
\* cue containing ms: the 0-based index of that cue, NoCue when none does.
RECURSIVE ScanFrom(_, _, _)
ScanFrom(cs, ms, i) ==
    IF i >= Len(cs) THEN NoCue
    ELSE IF Contains(cs[i + 1], ms) THEN i
    ELSE ScanFrom(cs, ms, i + 1)

FindCue(cs, ms) == ScanFrom(cs, ms, 0)

\* A loop without the last_index test.
ShouldSpeakAlways(i, last) == TRUE

\* `if i != last_index`
ShouldSpeak(i, last) == i # last

\* The sampled player positions (half milliseconds): every 500 ms, the odd
\* samples half a millisecond late.
PositionOf(k) == k * (PosPerSec \div 2) + (k % 2)
Positions == {PositionOf(k) : k \in 0..MaxPosK}


\* ------------------------------------------------------------ file names
\* A file name is a sequence of fragments; NoPath is the falsy path (None).
NoPath == << >>
ExplicitPath == << "given", ".srt" >>

\* The text of the menu entry appended by interactive_subtitle_selection.
NoneLabel == << "None of the above", " (play without subtitles)" >>

FileA == << "a", ".srt" >>
FileB == << "b", ".srt" >>
FileNamed == << "None of the above", ".srt" >>

\* The .srt names found in the video's directory, in the order the scores
\* rank them (the score of a name depends on the movie's name).
Listings == { << >>, << FileA >>, << FileA, FileB >>, << FileNamed, FileA >> }

\* `"None of the above" in filename`
IsNoneEntry(name) == \E k \in 1..Len(name) : name[k] = "None of the above"

\* --speed in percent; the default is 1.0.
DefaultSpeed == 100
Speeds == {0, DefaultSpeed, 3 * DefaultSpeed}

NoKey == "none"
Keys == {"up", "down", "enter", "cancel", "other"}

\* ------------------------------------------------------------------ state
VARIABLES
    engine,       \* tts_engine: "google" or "edge"
    pre_cache,    \* --precache
    subs,         \* the cue list loaded by pysrt.open
    pc,           \* position of the main thread in play_video_with_tts
    gi,           \* generate_tts, google loop: the 1-based loop index i
    tasks,        \* generate_all_edge: cue index of each task, in issue order
    running,      \* positions (in tasks) of the requests still in flight
    done_q,       \* completed requests, in completion order: [t, ok]
    awaited,      \* number of completions the as_completed loop has consumed
    audio_files,  \* cue index -> file number, None when unset
    files,        \* file number -> "absent" | "partial" | "complete" in temp_dir
    stop_flag,    \* stop_flag.is_set()
    listener,     \* keyboard listener: "unstarted" | "listening" | "ended"
    volume,       \* pygame.mixer.music volume, 0 or 1
    player,       \* mpv player: "none" | "playing" | "terminated"
    eof,          \* player.eof_reached
    mixer,        \* pygame.mixer: "uninit" | "ready" | "quit"
    torn,         \* teardown steps attempted by the finally block
    last_index,   \* last spoken subtitle
    audible,      \* file numbers of the clips the mixer is playing
    run,          \* number of the bulk fill in progress or last finished
    first_audio,  \* audio_files returned by the first bulk fill
    first_calls,  \* calls when the first bulk fill returned
    calls,        \* cue index -> synthesis calls issued so far
    failed,       \* cue indices with a synthesis call that failed
    nfail,        \* synthesis calls that failed so far
    raised,       \* an exception propagated out of generate_tts
    teardowns,    \* executions of the finally block
    obs,          \* the latest position polled and the cue it matched; the
                  \* clip started and the error caught by the latest iteration
    runStarts,    \* clips started during the current run of polls that
                  \* resolve to the same cue
    faulted,      \* a synthesis call failed or the sync loop caught an error
    scen,         \* progress of the end-to-end scenario (ScenarioCues, eager
                  \* fill, ScenarioPolls, no fault); Dead outside of it
    scenStarts,   \* clips started, in order, while following ScenarioPolls
    speed,        \* --speed, in percent of the normal rate
    srt_path,     \* the subtitle path: a file name, NoPath when there is none
    srt_files,    \* the .srt names found next to the video, as ranked
    options,      \* interactive_subtitle_selection: the menu entries
    cursor,       \* interactive_subtitle_selection: selected_index
    key,          \* interactive_subtitle_selection: the last key read
    fatal         \* why the session ended before playback, "none" otherwise

vars ==
    << engine, pre_cache, subs, pc, gi, tasks, running, done_q, awaited,
       audio_files, files, stop_flag, listener, volume, player, eof, mixer,
       torn, last_index, audible, run, first_audio, first_calls, calls,
       failed, nfail, raised, teardowns, obs, runStarts, faulted, scen, scenStarts,
       speed, srt_path, srt_files, options, cursor, key, fatal >>

pickerVars == << options, cursor, key >>
setupVars == << speed, srt_path, srt_files, pickerVars, fatal >>
config == << engine, pre_cache, subs, setupVars >>
edgeVars == << tasks, running, done_q, awaited >>
loopVars == << last_index, audible, obs, runStarts, faulted, scenStarts >>
envVars == << listener, volume, player, eof, mixer, torn, teardowns >>
refillVars == << run, first_audio, first_calls >>

N == Len(subs)
CueIdx == 0..(N - 1)

\* The positions polled in the end-to-end scenario, in milliseconds.
ScenarioPolls == << 0, 1500, 2500 >>
Dead == 0 - 1

Min(a, b) == IF a < b THEN a ELSE b

Bump(cl, i) == [cl EXCEPT ![i] = @ + 1]

\* os.path.exists(filename)
Exists(fl, f) == fl[f] # "absent"

\* Outcomes of one synthesis call writing file f: success leaves the whole
\* file; a failure leaves the directory as it was or a truncated file.
SynthOutcomes(fl, f) ==
    { [ok |-> TRUE, files |-> [fl EXCEPT ![f] = "complete"]] }
    \cup ( IF nfail < MaxFailures
           THEN { [ok |-> FALSE, files |-> [fl EXCEPT ![f] = "partial"]],
                  [ok |-> FALSE, files |-> fl] }
           ELSE {} )

Init ==
    /\ engine \in {"google", "edge"}
    /\ pre_cache \in BOOLEAN
    /\ subs \in CueLists
    /\ pc = "gen_start"
    /\ gi = 1
    /\ tasks = <<>>
    /\ running = {}
    /\ done_q = <<>>
    /\ awaited = 0
    /\ audio_files = [i \in CueIdx |-> None]
    /\ files = [f \in 1..N |-> "absent"]
    /\ stop_flag = FALSE
    /\ listener = "unstarted"
    /\ volume = 1
    /\ player = "none"
    /\ eof = FALSE
    /\ mixer = "ready"
    /\ torn = [mixer_quit |-> FALSE, terminate |-> FALSE, cleanup |-> FALSE]
    /\ last_index = NoCue
    /\ audible = {}
    /\ run = 1
    /\ first_audio = [i \in CueIdx |-> None]
    /\ first_calls = [i \in CueIdx |-> 0]
    /\ calls = [i \in CueIdx |-> 0]
    /\ failed = {}
    /\ nfail = 0
    /\ raised = FALSE
    /\ teardowns = 0
    /\ obs = [pos |-> NoCue, match |-> NoCue, started |-> NoCue, err |-> FALSE]
    /\ runStarts = 0
    /\ faulted = FALSE
    /\ scen = IF subs = ScenarioCues /\ pre_cache THEN 0 ELSE Dead
    /\ scenStarts = <<>>
    /\ speed = DefaultSpeed
    /\ srt_path = ExplicitPath
    /\ srt_files = <<>>
    /\ options = <<>>
    /\ cursor = 0
    /\ key = NoKey
    /\ fatal = "none"


\* ------------------------------------------------- generate_tts (bulk fill)
\* generate_all_edge, first loop: one request per non-blank cue whose file
\* does not exist yet, in cue order (the cue index of each request).
RECURSIVE EdgeTasksFrom(_, _, _)
EdgeTasksFrom(cs, fl, i) ==
    IF i >= Len(cs) THEN <<>>
    ELSE IF Blank(cs[i + 1].text) \/ Exists(fl, i + 1)
         THEN EdgeTasksFrom(cs, fl, i + 1)
         ELSE <<i>> \o EdgeTasksFrom(cs, fl, i + 1)

EdgeTasks(cs, fl) == EdgeTasksFrom(cs, fl, 0)

\* generate_all_edge, second loop: `original_index = tasks[i][1]`, where i
\* counts the completions consumed so far; t is the position (in tasks) of
\* the request whose completion is being consumed.
OriginalIndex(ts, i, t) == ts[i + 1]

RECURSIVE BumpAll(_, _)
BumpAll(cl, ts) == IF ts = <<>> THEN cl ELSE BumpAll(Bump(cl, Head(ts)), Tail(ts))

\* Entry of generate_tts: audio_files = [None] * len(subs), then the branch
\* on tts_engine and pre_cache.  For edge with pre_cache the requests are
\* created here and all start when as_completed is called.
GenStart ==
    /\ pc = "gen_start"
    /\ audio_files' = [i \in CueIdx |-> None]
    /\ IF ~pre_cache
       THEN /\ pc' = "after_gen"
            /\ UNCHANGED << gi, edgeVars, calls >>
       ELSE IF engine = "google"
       THEN /\ pc' = "g_check"
            /\ gi' = 1
            /\ UNCHANGED << edgeVars, calls >>
       ELSE LET ts == EdgeTasks(subs, files) IN
            /\ tasks' = ts
            /\ running' = 1..Len(ts)
            /\ done_q' = <<>>
            /\ awaited' = 0
            /\ calls' = BumpAll(calls, ts)
            /\ pc' = IF ts = <<>> THEN "after_gen" ELSE "e_await"
            /\ UNCHANGED gi
    /\ UNCHANGED << config, files, stop_flag, envVars, loopVars, refillVars,
                    failed, nfail, raised, scen >>

\* google loop, top of an iteration: end of the list, or `if
\* stop_flag.is_set(): break`.
GoogleCheck ==
    /\ pc = "g_check"
    /\ pc' = IF gi > N \/ stop_flag THEN "after_gen" ELSE "g_body"
    /\ UNCHANGED << config, gi, edgeVars, audio_files, files, stop_flag, envVars,
                    loopVars, refillVars, calls, failed, nfail, raised, scen >>

\* google loop, body of iteration gi (cue gi - 1, file gi).
GoogleBody ==
    /\ pc = "g_body"
    /\ pc' = "g_check"
    /\ gi' = gi + 1
    /\ IF Blank(subs[gi].text)
       THEN UNCHANGED << audio_files, files, calls, failed, nfail, faulted, scen >>
       ELSE IF Exists(files, gi)
       THEN /\ audio_files' = [audio_files EXCEPT ![gi - 1] = gi]
            /\ UNCHANGED << files, calls, failed, nfail, faulted, scen >>
       ELSE \E o \in SynthOutcomes(files, gi) :
            /\ calls' = Bump(calls, gi - 1)
            /\ files' = o.files
            /\ failed' = IF o.ok THEN failed ELSE failed \cup {gi - 1}
            /\ nfail' = IF o.ok THEN nfail ELSE nfail + 1
            /\ faulted' = (faulted \/ ~o.ok)
            /\ audio_files' = IF o.ok THEN [audio_files EXCEPT ![gi - 1] = gi]
                              ELSE audio_files
            /\ scen' = IF o.ok THEN scen ELSE Dead
    /\ UNCHANGED << config, edgeVars, stop_flag, envVars, last_index, audible,
                    obs, runStarts, scenStarts, refillVars, raised >>

\* One of the concurrent edge requests finishes, successfully or not.
EdgeTaskDone ==
    /\ pc = "e_await"
    /\ \E t \in running :
       \E o \in SynthOutcomes(files, tasks[t] + 1) :
            /\ running' = running \ {t}
            /\ done_q' = Append(done_q, [t |-> t, ok |-> o.ok])
            /\ files' = o.files
            /\ failed' = IF o.ok THEN failed ELSE failed \cup {tasks[t]}
            /\ nfail' = IF o.ok THEN nfail ELSE nfail + 1
            /\ faulted' = (faulted \/ ~o.ok)
            /\ scen' = IF o.ok THEN scen ELSE Dead
    /\ UNCHANGED << config, pc, gi, tasks, awaited, audio_files, stop_flag,
                    envVars, last_index, audible, obs, runStarts, scenStarts,
                    refillVars, calls, raised >>

\* generate_all_edge, second loop: `await` of the next completed request.
\* A failed request raises out of generate_tts (asyncio.run cancels the
\* requests still in flight) into the `except Exception` of the caller.
EdgeAwaitNext ==
    /\ pc = "e_await"
    /\ awaited < Len(done_q)
    /\ LET c == done_q[awaited + 1] IN
       IF c.ok
       THEN LET k == OriginalIndex(tasks, awaited, c.t) IN
            /\ audio_files' = [audio_files EXCEPT ![k] = k + 1]
            /\ awaited' = awaited + 1
            /\ pc' = IF awaited + 1 = Len(tasks) THEN "after_gen" ELSE "e_await"
            /\ UNCHANGED << running, raised >>
       ELSE /\ raised' = TRUE
            /\ running' = {}
            /\ pc' = "finally"
            /\ UNCHANGED << audio_files, awaited >>
    /\ UNCHANGED << config, gi, tasks, done_q, files, stop_flag, envVars,
                    loopVars, refillVars, calls, failed, nfail, scen >>

\* After generate_tts returns: `if stop_flag.is_set(): return`.
AfterGen ==
    /\ pc = "after_gen"
    /\ pc' = IF stop_flag THEN "finally" ELSE "start_player"
    /\ UNCHANGED << config, gi, edgeVars, audio_files, files, stop_flag, envVars,
                    loopVars, refillVars, calls, failed, nfail, raised, scen >>


\* ------------------------------------------------------- player start-up
\* mpv.MPV(...), player.play, wait_until_playing, then the keyboard thread
\* is started; last_index = -1.
StartPlayer ==
    /\ pc = "start_player"
    /\ player' = "playing"
    /\ listener' = "listening"
    /\ last_index' = NoCue
    /\ pc' = "loop_check"
    /\ UNCHANGED << config, gi, edgeVars, audio_files, files, stop_flag, volume,
                    eof, mixer, torn, teardowns, audible, obs, runStarts, faulted,
                    scenStarts, refillVars, calls, failed, nfail, raised, scen >>

\* ---------------------------------------------------------- the sync loop
\* A loop condition that only looks at the end of the stream.
LoopContinuesIgnoringStop(stop, ended) == ~ended

\* `while not stop_flag.is_set() and not player.eof_reached`
LoopContinues(stop, ended) == ~stop /\ ~ended

LoopCheck ==
    /\ pc = "loop_check"
    /\ pc' = IF LoopContinues(stop_flag, eof) THEN "loop_body" ELSE "finally"
    /\ UNCHANGED << config, gi, edgeVars, audio_files, files, stop_flag, envVars,
                    loopVars, refillVars, calls, failed, nfail, raised, scen >>

\* What one iteration leaves behind.
Outcome(last, af, fl, cl, fd, nf, aud, started, err) ==
    [last |-> last, audio |-> af, files |-> fl, calls |-> cl, failed |-> fd,
     nfail |-> nf, audible |-> aud, started |-> started, err |-> err]

\* A critical section without the stop: the clip in flight keeps playing.
AfterStopKeeps(aud) == aud

\* `with tts_lock: pygame.mixer.music.stop(); play_tts_audio(filename)`,
\* then `last_index = i`.  A stop that raises leaves the iteration through
\* the loop's `except`; a load or play that raises is caught inside
\* play_tts_audio.  aud is the set of audible clips after the stop.
\* The mixer is not credited with silencing a clip by itself when another is
\* loaded: only stop() does.
AfterStop(aud) == {}

LoadAndPlay(aud, f) == aud \cup {f}

Speak(m, af, fl, cl) ==
    { Outcome(last_index, af, fl, cl, failed, nfail, a, NoCue, TRUE) :
        a \in {audible, AfterStop(audible)} }
    \cup { Outcome(m, af, fl, cl, failed, nfail, AfterStop(audible), NoCue, TRUE) }
    \cup ( IF fl[af[m]] = "complete"
           THEN { Outcome(m, af, fl, cl, failed, nfail,
                          LoadAndPlay(AfterStop(audible), af[m]), m, FALSE) }
           ELSE {} )

\* A skipped cue that leaves last_index where it was.
AfterSkipKeeps(i, last) == last

\* `last_index = i; break` for a cue with blank text and for a cue whose
\* on-demand synthesis failed: the value last_index takes.
AfterSkip(i, last) == i

\* A file name taken from another cue.
FileOfOther(i) == IF i = 0 THEN 2 ELSE i

\* os.path.join(temp_dir, f"sub_{i+1}.mp3"), as its number
FileOf(i) == i + 1

\* On-demand generation for cue m (`if filename is None`), then the clip.
OnDemand(m) ==
    IF Blank(subs[m + 1].text)
    THEN { Outcome(AfterSkip(m, last_index), audio_files, files, calls, failed,
                   nfail, audible, NoCue, FALSE) }
    ELSE UNION { IF o.ok
                 THEN Speak(m, [audio_files EXCEPT ![m] = FileOf(m)], o.files,
                            Bump(calls, m))
                 ELSE { Outcome(AfterSkip(m, last_index), audio_files, o.files,
                                Bump(calls, m), failed \cup {m}, nfail + 1,
                                audible, NoCue, TRUE) }
                 : o \in SynthOutcomes(files, FileOf(m)) }

\* The body of one iteration that read position p.
IterationOutcomes(p) ==
    LET m == FindCue(subs, ToMs(p)) IN
    IF m = NoCue \/ ~ShouldSpeak(m, last_index)
    THEN { Outcome(last_index, audio_files, files, calls, failed, nfail,
                   audible, NoCue, FALSE) }
    ELSE IF audio_files[m] = None THEN OnDemand(m)
    ELSE Speak(m, audio_files, files, calls)

\* Position p lies within millisecond ms of the player's clock.
AtMs(p, ms) == ms * PosPerSec <= p * MsPerSec /\ p * MsPerSec < (ms + 1) * PosPerSec

\* The scenario advances while the polls follow ScenarioPolls without fault.
NextScen(sc, p, err) ==
    IF sc = Dead \/ err THEN Dead
    ELSE IF sc < Len(ScenarioPolls) /\ AtMs(p, ScenarioPolls[sc + 1]) THEN sc + 1
    ELSE Dead

\* An error that ends the loop instead of the tick.
AfterTickRaises(err) == IF err THEN "finally" ELSE "loop_check"

\* The end of an iteration: after the sleep, or after the loop's `except
\* Exception` and its sleep, control is back at the `while` test.
AfterTick(err) == "loop_check"

\* An iteration whose position read gave a number.
Poll ==
    /\ pc = "loop_body"
    /\ subs # << >>
    /\ \E p \in Positions :
       \E o \in IterationOutcomes(p) :
       LET m == FindCue(subs, ToMs(p))
           sc == NextScen(scen, p, o.err)
           began == IF o.started # NoCue THEN 1 ELSE 0
       IN
            /\ pc' = AfterTick(o.err)
            /\ last_index' = o.last
            /\ audio_files' = o.audio
            /\ files' = o.files
            /\ calls' = o.calls
            /\ failed' = o.failed
            /\ nfail' = o.nfail
            /\ audible' = o.audible
            /\ obs' = [pos |-> p, match |-> m, started |-> o.started, err |-> o.err]
            /\ runStarts' = IF m = obs.match
                            THEN Min(runStarts + began, MaxRunStarts)
                            ELSE began
            /\ faulted' = (faulted \/ o.err)
            /\ scen' = sc
            /\ scenStarts' = IF sc = Dead THEN <<>>
                             ELSE IF o.started # NoCue
                             THEN Append(scenStarts, o.started)
                             ELSE scenStarts
    /\ UNCHANGED << config, gi, edgeVars, stop_flag, envVars, refillVars, raised >>

\* An iteration whose position read gave None (`continue`) or raised (the
\* loop's `except`).
PollUnavailable ==
    /\ pc = "loop_body"
    /\ subs # << >>
    /\ \E r \in BOOLEAN :
            /\ pc' = AfterTick(r)
            /\ obs' = [obs EXCEPT !.started = NoCue, !.err = r]
            /\ faulted' = (faulted \/ r)
    /\ UNCHANGED << config, gi, edgeVars, audio_files, files, stop_flag, envVars,
                    last_index, audible, runStarts, scenStarts,
                    refillVars, calls, failed, nfail, raised, scen >>


\* ------------------------------------------------------------ environment
\* The player reaches the end of the stream.
PlayerEof ==
    /\ player = "playing"
    /\ ~eof
    /\ pc \in {"loop_check", "loop_body"}
    /\ eof' = TRUE
    /\ UNCHANGED << config, pc, gi, edgeVars, audio_files, files, stop_flag,
                    listener, volume, player, mixer, torn, teardowns, loopVars,
                    refillVars, calls, failed, nfail, raised, scen >>

\* The clip being played runs to its end.
ClipEnds ==
    /\ audible # {}
    /\ pc \in {"loop_check", "loop_body"}
    /\ audible' = {}
    /\ UNCHANGED << config, pc, gi, edgeVars, audio_files, files, stop_flag,
                    envVars, last_index, obs, runStarts, faulted, scenStarts,
                    refillVars, calls, failed, nfail, raised, scen >>

\* ------------------------------------------------- control_loop / on_press
\* key.char == "s"
KeyStop ==
    /\ listener = "listening"
    /\ pc # "done"
    /\ stop_flag' = TRUE
    /\ UNCHANGED << config, pc, gi, edgeVars, audio_files, files, envVars,
                    loopVars, refillVars, calls, failed, nfail, raised, scen >>

\* key.char == "q": sets the flag and `return False` ends the listener.
KeyQuit ==
    /\ listener = "listening"
    /\ pc # "done"
    /\ stop_flag' = TRUE
    /\ listener' = "ended"
    /\ UNCHANGED << config, pc, gi, edgeVars, audio_files, files, volume, player,
                    eof, mixer, torn, teardowns, loopVars, refillVars, calls,
                    failed, nfail, raised, scen >>

\* set_volume(0 if get_volume() > 0 else 1)
Toggle(v) == IF v > 0 THEN 0 ELSE 1

\* key.char == "m"
KeyMute ==
    /\ listener = "listening"
    /\ pc # "done"
    /\ mixer = "ready"
    /\ volume' = Toggle(volume)
    /\ UNCHANGED << config, pc, gi, edgeVars, audio_files, files, stop_flag,
                    listener, player, eof, mixer, torn, teardowns, loopVars,
                    refillVars, calls, failed, nfail, raised, scen >>

\* ---------------------------------------------------------------- teardown
\* The finally block: stop_flag.set(); try: `if subs:` pygame.mixer.quit();
\* player.terminate() except: pass; cleanup_temp_files(temp_dir).  A
\* mixer.quit() that raises skips player.terminate().
Finally ==
    /\ pc = "finally"
    /\ pc' = "done"
    /\ stop_flag' = TRUE
    /\ teardowns' = teardowns + 1
    /\ \E quitOk \in (IF subs # << >> THEN BOOLEAN ELSE {TRUE}) :
            /\ mixer' = IF quitOk /\ subs # << >> THEN "quit" ELSE mixer
            /\ audible' = IF quitOk THEN {} ELSE audible
            /\ player' = IF quitOk /\ player = "playing" THEN "terminated"
                         ELSE player
            /\ torn' = [mixer_quit |-> subs # << >>,
                        terminate |-> quitOk /\ player # "none",
                        cleanup |-> TRUE]
            /\ files' = [f \in 1..N |-> "absent"]
    /\ UNCHANGED << config, gi, edgeVars, audio_files, listener, volume, eof,
                    last_index, obs, runStarts, faulted, scenStarts, refillVars,
                    calls, failed, nfail, raised, scen >>

\* ------------------------------------------------------------ the program
MainStep ==
    \/ GenStart
    \/ GoogleCheck
    \/ GoogleBody
    \/ EdgeAwaitNext
    \/ AfterGen
    \/ StartPlayer
    \/ LoopCheck
    \/ Poll
    \/ PollUnavailable
    \/ Finally

Next ==
    \/ MainStep
    \/ EdgeTaskDone
    \/ PlayerEof
    \/ ClipEnds
    \/ KeyStop
    \/ KeyQuit
    \/ KeyMute

Spec == Init /\ [][Next]_vars


\* The main thread is scheduled as long as it has a step to take; each of
\* its steps (a synthesis call, a poll, the finally block) returns.
LiveInit == Init /\ subs = OverlapCues

FairSpec == LiveInit /\ [][Next]_vars /\ WF_vars(MainStep)

\* stop_flag is a module-level threading.Event: any thread holding the
\* module can set it while generate_tts runs (the keyboard thread itself is
\* only started after the player).
ExternalStop ==
    /\ pc \in {"g_check", "g_body", "e_await"}
    /\ ~stop_flag
    /\ stop_flag' = TRUE
    /\ UNCHANGED << config, pc, gi, edgeVars, audio_files, files, envVars,
                    loopVars, refillVars, calls, failed, nfail, raised, scen >>

NextStop == Next \/ ExternalStop

SpecStop == Init /\ [][NextStop]_vars

\* generate_tts called a second time on the same cues and the same temp_dir,
\* once the first call has returned.
Refill ==
    /\ pc = "after_gen"
    /\ run = 1
    /\ run' = 2
    /\ first_audio' = audio_files
    /\ first_calls' = calls
    /\ pc' = "gen_start"
    /\ UNCHANGED << config, gi, edgeVars, audio_files, files, stop_flag, envVars,
                    loopVars, calls, failed, nfail, raised, scen >>

NextRefill ==
    \/ GenStart
    \/ GoogleCheck
    \/ GoogleBody
    \/ EdgeTaskDone
    \/ EdgeAwaitNext
    \/ Refill

SpecRefill == Init /\ [][NextRefill]_vars


\* ------------------------------------------------ __main__ and the set-up
\* `args.tts_engine == 'google' and (args.speed < 0.5 or args.speed > 2.0)`
Rejected(e, s) == e = "google" /\ (s < DefaultSpeed \div 2 \/ s > 2 * DefaultSpeed)

\* `int((voice_speed - 1) * 100)`, the percentage of rate_str
RatePercent(s) == s - DefaultSpeed

\* The cue list pysrt.open returns for a file that parses to cues.
ShortCues == << Cue(0, 1000, << "a" >>) >>
ParsedLists == { ShortCues }

\* Variables the set-up leaves alone; cueVars are those shaped by subs.
runVars ==
    << gi, edgeVars, stop_flag, listener, volume, player, eof, torn, teardowns,
       loopVars, run, failed, nfail, raised >>
cueVars == << audio_files, files, first_audio, first_calls, calls, scen >>

SetupInit ==
    /\ engine \in {"google", "edge"}
    /\ pre_cache \in BOOLEAN
    /\ speed \in Speeds
    /\ subs = << >>
    /\ pc = "main"
    /\ gi = 1
    /\ tasks = <<>>
    /\ running = {}
    /\ done_q = <<>>
    /\ awaited = 0
    /\ audio_files = [i \in CueIdx |-> None]
    /\ files = [f \in 1..N |-> "absent"]
    /\ stop_flag = FALSE
    /\ listener = "unstarted"
    /\ volume = 1
    /\ player = "none"
    /\ eof = FALSE
    /\ mixer = "uninit"
    /\ torn = [mixer_quit |-> FALSE, terminate |-> FALSE, cleanup |-> FALSE]
    /\ last_index = NoCue
    /\ audible = {}
    /\ run = 1
    /\ first_audio = [i \in CueIdx |-> None]
    /\ first_calls = [i \in CueIdx |-> 0]
    /\ calls = [i \in CueIdx |-> 0]
    /\ failed = {}
    /\ nfail = 0
    /\ raised = FALSE
    /\ teardowns = 0
    /\ obs = [pos |-> NoCue, match |-> NoCue, started |-> NoCue, err |-> FALSE]
    /\ runStarts = 0
    /\ faulted = FALSE
    /\ scen = Dead
    /\ scenStarts = <<>>
    /\ srt_path = NoPath
    /\ srt_files = <<>>
    /\ options = <<>>
    /\ cursor = 0
    /\ key = NoKey
    /\ fatal = "none"

\* The speed check of __main__: exit(1), or the call of play_video_with_tts.
Main ==
    /\ pc = "main"
    /\ IF Rejected(engine, speed)
       THEN pc' = "exit" /\ fatal' = "rate"
       ELSE pc' = "s_video" /\ UNCHANGED fatal
    /\ UNCHANGED << engine, pre_cache, subs, speed, srt_path, srt_files,
                    pickerVars, mixer, runVars, cueVars >>

\* `if not os.path.exists(video_path): return`
CheckVideo ==
    /\ pc = "s_video"
    /\ \E found \in BOOLEAN :
            IF found
            THEN pc' = "s_resolve" /\ UNCHANGED fatal
            ELSE pc' = "exit" /\ fatal' = "no_video"
    /\ UNCHANGED << engine, pre_cache, subs, speed, srt_path, srt_files,
                    pickerVars, mixer, runVars, cueVars >>

\* `if not srt_path:` the search of the video's directory: no file returns,
\* one file is taken, several are ranked and handed to the picker.
ResolveSubs ==
    /\ pc = "s_resolve"
    /\ \/ /\ srt_path' = ExplicitPath
          /\ pc' = "s_load"
          /\ UNCHANGED << srt_files, pickerVars, fatal >>
       \/ \E l \in Listings :
            /\ srt_files' = l
            /\ IF Len(l) = 0
               THEN /\ pc' = "exit"
                    /\ fatal' = "no_candidates"
                    /\ UNCHANGED << srt_path, pickerVars >>
               ELSE IF Len(l) = 1
               THEN /\ srt_path' = l[1]
                    /\ pc' = "s_load"
                    /\ UNCHANGED << pickerVars, fatal >>
               ELSE /\ options' = Append(l, NoneLabel)
                    /\ cursor' = 0
                    /\ pc' = "s_pick"
                    /\ UNCHANGED << srt_path, key, fatal >>
    /\ UNCHANGED << engine, pre_cache, subs, speed, mixer, runVars, cueVars >>

\* selected_index = (selected_index - 1) % len(options)
CursorUp(c, n) == (c - 1) % n

\* selected_index = (selected_index + 1) % len(options)
CursorDown(c, n) == (c + 1) % n

\* ENTER: `chosen_file, _ = options[selected_index]`, None when the entry
\* contains "None of the above".
Chosen(opts, c) == IF IsNoneEntry(opts[c + 1]) THEN NoPath ELSE opts[c + 1]

\* A run that reaches the player although the picker was cancelled.
OnCancelContinue == "s_load"

\* `if chosen_file == "CANCEL": return`
OnCancel == "exit"

\* One key read by interactive_subtitle_selection; ENTER and the cancel
\* keys return to play_video_with_tts, which sets srt_path or returns.
PickKey ==
    /\ pc = "s_pick"
    /\ \E k \in Keys :
            /\ key' = k
            /\ cursor' = IF k = "up" THEN CursorUp(cursor, Len(options))
                          ELSE IF k = "down" THEN CursorDown(cursor, Len(options))
                          ELSE cursor
            /\ IF k = "enter"
               THEN /\ srt_path' = Chosen(options, cursor)
                    /\ pc' = "s_load"
                    /\ UNCHANGED fatal
               ELSE IF k = "cancel"
               THEN /\ pc' = OnCancel
                    /\ fatal' = "cancel"
                    /\ UNCHANGED srt_path
               ELSE UNCHANGED << pc, srt_path, fatal >>
    /\ UNCHANGED << engine, pre_cache, subs, speed, srt_files, options, mixer,
                    runVars, cueVars >>

\* The subtitle-dependent section: the file must exist, parse, and hold at
\* least one cue; without a path subs stays None.
LoadSubs ==
    /\ pc = "s_load"
    /\ IF srt_path = NoPath
       THEN /\ pc' = "s_audio"
            /\ UNCHANGED << subs, cueVars, fatal >>
       ELSE \/ \E why \in {"no_srt", "parse", "empty"} :
                /\ pc' = "exit"
                /\ fatal' = why
                /\ UNCHANGED << subs, cueVars >>
            \/ \E cs \in ParsedLists :
                /\ subs' = cs
                /\ audio_files' = [i \in 0..(Len(cs) - 1) |-> None]
                /\ files' = [f \in 1..Len(cs) |-> "absent"]
                /\ first_audio' = [i \in 0..(Len(cs) - 1) |-> None]
                /\ first_calls' = [i \in 0..(Len(cs) - 1) |-> 0]
                /\ calls' = [i \in 0..(Len(cs) - 1) |-> 0]
                /\ scen' = Dead
                /\ pc' = "s_audio"
                /\ UNCHANGED fatal
    /\ UNCHANGED << engine, pre_cache, speed, srt_path, srt_files, pickerVars,
                    mixer, runVars >>

\* `if subs: pygame.mixer.init()` (a failure returns), then mkdtemp and the
\* entry of the try block: `if subs:` generate_tts, else on to the player.
InitAudio ==
    /\ pc = "s_audio"
    /\ IF subs = << >>
       THEN pc' = "start_player" /\ UNCHANGED << mixer, fatal >>
       ELSE \E ok \in BOOLEAN :
            IF ok
            THEN pc' = "gen_start" /\ mixer' = "ready" /\ UNCHANGED fatal
            ELSE pc' = "exit" /\ fatal' = "audio" /\ UNCHANGED mixer
    /\ UNCHANGED << engine, pre_cache, subs, speed, srt_path, srt_files,
                    pickerVars, runVars, cueVars >>

\* The sync loop without subtitles: `time.sleep(0.1)`.
Idle ==
    /\ pc = "loop_body"
    /\ subs = << >>
    /\ pc' = "loop_check"
    /\ UNCHANGED << config, gi, edgeVars, audio_files, files, stop_flag, envVars,
                    loopVars, refillVars, calls, failed, nfail, raised, scen >>

\* key.char == "m" in a session without subtitles: pygame.mixer was never
\* initialised, get_volume raises an error that is not an AttributeError,
\* the error leaves on_press and the listener stops.
KeyMuteNoMixer ==
    /\ listener = "listening"
    /\ pc # "done"
    /\ mixer = "uninit"
    /\ listener' = "ended"
    /\ UNCHANGED << config, pc, gi, edgeVars, audio_files, files, stop_flag,
                    volume, player, eof, mixer, torn, teardowns, loopVars,
                    refillVars, calls, failed, nfail, raised, scen >>

SetupStep ==
    \/ Main
    \/ CheckVideo
    \/ ResolveSubs
    \/ PickKey
    \/ LoadSubs
    \/ InitAudio
    \/ Idle
    \/ KeyMuteNoMixer

NextSetup == Next \/ SetupStep

SpecSetup == SetupInit /\ [][NextSetup]_vars


\* ================================================================ claims
\* Vocabulary of the claims, stated without the operators of the model.

\* Position p of the player clock, cut to whole milliseconds, lies in the
\* closed interval of cue c.
InCue(p, c) ==
    /\ c.start * PosPerSec <= p * MsPerSec
    /\ p * MsPerSec < (c.end + 1) * PosPerSec

\* The lowest cue index whose interval contains p, NoCue when there is none.
LowestCue(p) ==
    IF \E i \in CueIdx : InCue(p, subs[i + 1])
    THEN CHOOSE i \in CueIdx :
            /\ InCue(p, subs[i + 1])
            /\ \A j \in CueIdx : InCue(p, subs[j + 1]) => i <= j
    ELSE NoCue

\* The text of cue i has a character that is not white space.
HasText(i) == \E k \in 1..Len(subs[i + 1].text) : ~IsSpace(subs[i + 1].text[k])

\* One iteration of the sync loop.
PollStep == pc = "loop_body" /\ pc' = "loop_check"

InLoop == pc \in {"loop_check", "loop_body"}

\* ------------------------------------------------------------------- C1
\* C1 (as claimed): in every run of consecutive polls that resolve to the
\* same Ready cue, in a session that caught no error, the clip of that cue has
\* been started exactly once: by the first poll of the run, never again.
C1_OncePerRun ==
    (obs.match # NoCue /\ ~faulted /\ audio_files[obs.match] # None)
        => runStarts = 1

\* C1 (amended): in a run of consecutive polls that resolve to the same cue
\* the clip of that cue is started at most once, always for the matched cue;
\* the first poll of the run, when it catches no error and the cue is Ready
\* after it, starts the clip exactly when lastCuePlayed differs from the cue:
\* a run entered with lastCuePlayed already equal to the cue starts nothing.
C1_NoRepeat ==
    /\ [](runStarts <= 1)
    /\ [](obs.started # NoCue => obs.started = obs.match /\ last_index = obs.match)
    /\ [][ ( /\ PollStep
             /\ obs'.match # NoCue
             /\ obs'.match # obs.match
             /\ ~obs'.err
             /\ audio_files'[obs'.match] # None )
           => ((obs'.started = obs'.match) <=> (last_index # obs'.match)) ]_vars

\* A later poll of a run whose first poll started the clip: nothing started.
C1_Witness ==
    /\ pc = "loop_check"
    /\ obs.match # NoCue
    /\ runStarts = 1
    /\ obs.started = NoCue
    /\ ~faulted
    /\ audible = {obs.match + 1}

\* ------------------------------------------------------------------- C2
\* C2: the cue matched by a poll is the lowest-index cue whose closed
\* interval contains the polled position; a poll starts no clip other than
\* that cue's and sets lastCuePlayed to no other index.
C2_LowestIndexWins ==
    /\ [](obs.pos # NoCue =>
            /\ obs.match = LowestCue(obs.pos)
            /\ obs.started \in {NoCue, obs.match})
    /\ [][PollStep => last_index' \in {last_index, obs'.match}]_vars

\* A position inside two cues resolved to the lower one, whose clip started.
C2_Witness ==
    /\ obs.pos # NoCue
    /\ obs.match # NoCue
    /\ obs.started = obs.match
    /\ last_index = obs.match
    /\ \E j \in CueIdx : j > obs.match /\ InCue(obs.pos, subs[j + 1])

\* ------------------------------------------------------------------- C3
\* C3: at most one clip is audible in every state; a clip becomes audible
\* only by an iteration of the sync loop, and right after the loop starts a
\* clip that clip is the only one audible.
C3_OneClip ==
    /\ [](Cardinality(audible) <= 1)
    /\ [][~(audible' \subseteq audible) => PollStep]_vars
    /\ [][PollStep /\ obs'.started # NoCue => audible' = {obs'.started + 1}]_vars

\* The clip of one cue is started while the clip of another is still audible.
C3_Witness ==
    /\ pc = "loop_check"
    /\ obs.started # NoCue
    /\ audible = {obs.started + 1}
    /\ \E j \in CueIdx : j # obs.started /\ audio_files[j] # None /\ ~pre_cache

C5_FailureIsolated ==
    (pre_cache /\ run = 1) =>
        /\ ~raised
        /\ (pc = "after_gen" =>
                \A i \in CueIdx :
                    (HasText(i) /\ i \notin failed) => audio_files[i] = i + 1)

\* ------------------------------------------------------------------- C6
\* C6 (as claimed): a second bulk fill on the same cues and directory issues
\* no synthesis call, and every cue that was Ready after the first fill is
\* Ready, mapped to the same file, after the second.
C6_RefillIdempotent ==
    run = 2 =>
        /\ calls = first_calls
        /\ (pc = "after_gen" =>
                \A i \in CueIdx :
                    first_audio[i] # None => audio_files[i] = first_audio[i])

\* ------------------------------------------------------------------- C7
\* C7 (as claimed): no cue is synthesized more than once in a session, and a
\* cue without text is never synthesized: no call is issued for a cue whose
\* entry is already Ready, Empty or Failed.
C7_OneTransition ==
    \A i \in CueIdx :
        /\ calls[i] <= 1
        /\ (~HasText(i) => calls[i] = 0)

\* ------------------------------------------------------------------- C8
\* C8: with the cues "Hello", "", "World" at [0,1000], [1000,2000],
\* [2000,3000], eager fill and no fault, the fill leaves cues 0 and 2 Ready
\* and cue 1 unset after exactly one synthesis call for cue 0 and one for
\* cue 2; polls at 0, 1500 and 2500 ms start the clip of cue 0, nothing,
\* then the clip of cue 2, and issue no further synthesis call.
ScenarioStarts == << <<>>, <<0>>, <<0>>, <<0, 2>> >>

C8_Scenario ==
    scen # Dead =>
        /\ subs = ScenarioCues
        /\ scenStarts = ScenarioStarts[scen + 1]
        /\ (pc \notin {"gen_start", "g_check", "g_body", "e_await"} =>
                /\ audio_files = (0 :> 1 @@ 1 :> None @@ 2 :> 3)
                /\ calls = (0 :> 1 @@ 1 :> 0 @@ 2 :> 1))

\* The three polls of the scenario have been made.
C8_Witness ==
    /\ scen = Len(ScenarioPolls)
    /\ scenStarts = << 0, 2 >>
    /\ last_index = 2
    /\ calls = (0 :> 1 @@ 1 :> 0 @@ 2 :> 1)

\* ------------------------------------------------------------------- C9
\* C9 (as claimed): once the stop flag is set during eager fill, no further
\* synthesis call is started and no further entry is set (the iteration in
\* progress apart), and the caller goes to teardown without starting the
\* player, for either backend.
C9_FillInterruptible ==
    /\ [][ (stop_flag /\ pc \in {"g_check", "e_await"})
           => (calls' = calls /\ audio_files' = audio_files) ]_vars
    /\ [][ (stop_flag /\ pc = "after_gen") => pc' \in {"after_gen", "finally"} ]_vars

\* ------------------------------------------------------------------ C10
\* C10 (as claimed): during and after the edge bulk fill, the entry of cue k
\* is set only if the request issued for cue k has completed successfully,
\* and it is then cue k's own file.
RequestDone(k) ==
    \E j \in 1..Len(done_q) : done_q[j].ok /\ tasks[done_q[j].t] = k

C10_EdgeMapping ==
    (engine = "edge" /\ pre_cache /\ pc \in {"e_await", "after_gen"}) =>
        \A k \in CueIdx :
            audio_files[k] # None => (audio_files[k] = k + 1 /\ RequestDone(k))

\* ------------------------------------------------------------------ C11
\* The set-up failures after which no playback may start.
SetupFailures == {"no_video", "no_srt", "parse", "empty", "audio", "cancel"}

\* The search for a subtitle file has been made and found no candidate.
SearchedNone ==
    /\ pc \notin {"main", "s_video", "s_resolve"}
    /\ fatal \notin {"rate", "no_video"}
    /\ srt_path # ExplicitPath
    /\ srt_files = << >>

\* C11 (as claimed): when no subtitle path is given and the directory holds
\* no subtitle file, the resolution yields no path (None) and the session
\* goes on, as it does after the picker's "play without subtitles" entry,
\* instead of ending.
C11_ZeroCandidates ==
    SearchedNone => (srt_path = NoPath /\ fatal = "none" /\ pc # "exit")

\* ------------------------------------------------------------------ C12
\* C12: once the video file is missing, the subtitle file is missing, fails
\* to parse or holds no cue, the audio device fails to initialise, or the
\* picker is cancelled, the session has ended: the player is never created,
\* the key listener never started and the sync loop never entered.
C12_NoPlaybackAfterFailure ==
    /\ [](fatal \in SetupFailures =>
            /\ pc = "exit"
            /\ player = "none"
            /\ listener = "unstarted"
            /\ obs.pos = NoCue
            /\ \A i \in CueIdx : calls[i] = 0)
    /\ [][ (fatal \in SetupFailures) => (pc' = "exit" /\ player' = "none") ]_vars

\* The picker was cancelled with the cursor moved off the first entry.
C12_Witness ==
    /\ fatal = "cancel"
    /\ key = "cancel"
    /\ cursor # 0
    /\ pc = "exit"
    /\ player = "none"

\* ------------------------------------------------------------------ C13
\* C13 (as claimed): on every path by which a session ends, a set-up failure
\* or a cancelled picker included, the stop flag is set and each teardown
\* step has been attempted: the audio device released if it was acquired,
\* the player terminated if it was created, the temporary files removed.
C13_TeardownUnconditional ==
    (pc = "done" \/ (pc = "exit" /\ fatal \in SetupFailures)) =>
        /\ stop_flag
        /\ torn.cleanup
        /\ (mixer # "uninit" => torn.mixer_quit)
        /\ (player # "none" => torn.terminate)

\* ------------------------------------------------------------------ C14
\* The rates a backend supports: 0.5 to 2.0 for google; for edge a rate
\* above -100%, a rate of -100% or less leaving no speed to speak at.
RateSupported(e, s) ==
    IF e = "google" THEN 2 * s >= DefaultSpeed /\ s <= 2 * DefaultSpeed
    ELSE RatePercent(s) > 0 - DefaultSpeed

\* C14 (as claimed): when the requested rate is outside the range of the
\* selected backend, no synthesis call is made and no player is started.
C14_RateValidated ==
    ~RateSupported(engine, speed) =>
        /\ player = "none"
        /\ \A i \in CueIdx : calls[i] = 0

\* ------------------------------------------------------------------ C15
\* C15 (as claimed): from the start of the session until teardown the key
\* listener is active unless it has consumed a quit key, bulk generation and
\* the start of the player included.
C15_ListenerAlways ==
    (pc \notin {"finally", "done"} /\ listener # "ended") => listener = "listening"

\* ------------------------------------------------------------------ C16
\* A press of the mute key reaches on_press.
MutePress == KeyMute \/ KeyMuteNoMixer

\* C16 (as claimed): each press of the mute key flips the volume between 0
\* and 1 and neither sets the stop flag nor ends the listener, and the volume
\* changes by no other step.
C16_MuteToggle ==
    /\ [][ MutePress => /\ volume' = 1 - volume
                        /\ stop_flag' = stop_flag
                        /\ listener' = listener ]_vars
    /\ [][ (volume' # volume) => MutePress ]_vars

\* ------------------------------------------------------------------ C17
\* C17: a tick that matches a cue other than last_index and plays it, finds
\* its text blank, or fails to synthesize it on demand ends with last_index
\* at that cue; while the latest matched cue has no audio last_index is that
\* cue, and a further tick matching it makes no synthesis call and starts no
\* clip.
C17_LastIndexAdvances ==
    /\ [][ ( /\ PollStep
             /\ obs'.match # NoCue
             /\ obs'.match # last_index
             /\ \/ obs'.started = obs'.match
                \/ ~HasText(obs'.match)
                \/ nfail' # nfail )
           => last_index' = obs'.match ]_vars
    /\ []((InLoop /\ obs.match # NoCue /\ audio_files[obs.match] = None)
            => last_index = obs.match)
    /\ [][ ( /\ PollStep
             /\ obs.match # NoCue
             /\ obs'.match = obs.match
             /\ audio_files[obs.match] = None )
           => (calls' = calls /\ obs'.started = NoCue /\ audible' = audible) ]_vars

\* The on-demand synthesis of the matched cue has failed once.
C17_Witness ==
    /\ pc = "loop_check"
    /\ obs.match # NoCue
    /\ obs.match \in failed
    /\ audio_files[obs.match] = None
    /\ calls[obs.match] = 1
    /\ last_index = obs.match

\* ------------------------------------------------------------------ C18
\* C18: the sync loop is left only from its `while` test, with the stop flag
\* set or the stream ended; an iteration, whatever error it met, leads back
\* to the test.
C18_LoopSurvivesErrors ==
    /\ [][ (InLoop /\ pc' \notin {"loop_check", "loop_body"})
           => (pc = "loop_check" /\ pc' = "finally" /\ (stop_flag \/ eof)) ]_vars
    /\ [][ (pc = "loop_body" /\ pc' # pc) => pc' = "loop_check" ]_vars

\* The loop is in an iteration again after one that met an error.
C18_Witness ==
    /\ pc = "loop_body"
    /\ obs.err
    /\ ~stop_flag
    /\ ~eof

\* ------------------------------------------------------------------ C19
\* C19 (as claimed): over N ranked items the cursor stays in 0..N, up from 0
\* wraps to N and down from N to 0, any other key leaves it unchanged,
\* confirm returns the file at the cursor, the "no subtitles" result only at
\* cursor N, and the cancel key cancels from any position.
C19_PickerCursor ==
    /\ [](pc = "s_pick" => cursor \in 0..Len(srt_files))
    /\ [][ pc = "s_pick" =>
            LET n == Len(srt_files) IN
            /\ key' = "up" => cursor' = IF cursor = 0 THEN n ELSE cursor - 1
            /\ key' = "down" => cursor' = IF cursor = n THEN 0 ELSE cursor + 1
            /\ key' = "other" => (cursor' = cursor /\ pc' = pc)
            /\ key' = "enter" =>
                    /\ pc' = "s_load"
                    /\ srt_path' = IF cursor < n THEN srt_files[cursor + 1]
                                   ELSE NoPath
            /\ key' = "cancel" => (pc' = "exit" /\ fatal' = "cancel") ]_vars

\* ------------------------------------------------------------------ C20
\* A clip is the whole file of a cue whose entry names that file.
ValidClip(f) ==
    /\ f \in 1..N
    /\ files[f] = "complete"
    /\ audio_files[f - 1] = f
    /\ calls[f - 1] >= 1

\* C20: a clip the sync loop starts is the file of the cue matched on that
\* tick, written whole by a synthesis call for that cue; no other file is
\* ever loaded.
C20_PlayedClipValid ==
    /\ [][ (PollStep /\ obs'.started # NoCue)
           => /\ obs'.started = obs'.match
              /\ audible' = {obs'.match + 1}
              /\ files'[obs'.match + 1] = "complete"
              /\ calls'[obs'.match] >= 1 ]_vars
    /\ [](InLoop => \A f \in audible : ValidClip(f))

\* The edge requests completed in the reverse of the cue order and the loop
\* has started a clip.
C20_Witness ==
    /\ pc = "loop_check"
    /\ engine = "edge"
    /\ pre_cache
    /\ Len(done_q) = 2
    /\ done_q[1].t = 2
    /\ obs.started # NoCue
    /\ audible = {obs.started + 1}

====
